---------------------------- MODULE Spec2Model ----------------------------
(***************************************************************************)
(* A model of the VoxelWorld session (src/app/components/VoxelWorld.tsx):  *)
(* the voxel registry and the scene edited by interactWithVoxel, the       *)
(* movement integrator updateMovement, the key / mouse / pointer-lock      *)
(* handlers, the animate loop with its throttled telemetry, and the        *)
(* mount / unmount life cycle of the effect.                               *)
(*                                                                         *)
(* Numbers.  The program computes in IEEE doubles; the model computes in   *)
(* exact fixed point.  Clock deltas are whole milliseconds, velocities are *)
(* held in 1/VelScale units per second and positions in 1/PosScale units,  *)
(* so that  velocity * delta  is exact.                                    *)
(***************************************************************************)
EXTENDS Integers, Sequences, FiniteSets, TLC

\* ------------------------------------------------------------ constants
MOVE_SPEED == 12
SPRINT_TENTHS == 21          \* SPRINT_MULTIPLIER = 2.1, in tenths
GRAVITY == 30
JUMP_FORCE == 12
TERMINAL_VELOCITY == 48
FLOOR_HEIGHT == 3            \* camera.position.y < 3
CAMERA_START_Y == 18         \* camera.position.set(0, 18, 24)
JUMP_THRESHOLD_MILLI == 50   \* Math.abs(velocity.y) < 0.05
DAMPING == 8                 \* velocity.x * 8 * delta
MAX_DELTA_MS == 50           \* Math.min(clock.getDelta(), 0.05)
THROTTLE_MS == 250           \* elapsed >= 250
VelScale == 1000             \* velocity unit: 1/1000 per second
PosScale == 1000000          \* position unit: 1/1000000 (VelScale * ms per s)

\* --------------------------------------------------------------- bounds
MaxObjects == 7              \* objects ever created in the scene graph (SpecEdit)
MaxAdds == 2                 \* voxels ever placed by the player (SpecAdd)
MaxClickAdds == 1            \* the same, in SpecClick
MaxNow == 1500               \* last clock reading (ms) at which a tick runs (SpecFall)
MaxMoveNow == 450            \* the same, in SpecMove
MaxTelemetryNow == 600       \* the same, in SpecTelemetry
MaxJumpNow == 7000           \* the same, in SpecJump
MaxLockNow == 300            \* last clock reading (ms) at which the lock changes (SpecJump)
MaxSteerNow == 100           \* the same, in SpecSteer
MaxInputNow == 150           \* the same, in SpecInput
MaxLifeNow == 100            \* the same, in SpecLife
MaxMounts == 2               \* times the effect is run

\* ------------------------------------------------- Spatial key codec
\* keyFromPosition builds the string "x,y,z"; a string is modelled as the
\* sequence of its characters.
DigitChar(d) ==
    CASE d = 0 -> "0" [] d = 1 -> "1" [] d = 2 -> "2" [] d = 3 -> "3"
      [] d = 4 -> "4" [] d = 5 -> "5" [] d = 6 -> "6" [] d = 7 -> "7"
      [] d = 8 -> "8" [] OTHER -> "9"

RECURSIVE Digits(_)
Digits(n) ==
    IF n < 10 THEN <<DigitChar(n)>>
    ELSE Digits(n \div 10) \o <<DigitChar(n % 10)>>

NumberToString(n) ==
    IF n < 0 THEN <<"-">> \o Digits(-n) ELSE Digits(n)

keyFromPosition(x, y, z) ==
    NumberToString(x) \o <<",">> \o NumberToString(y) \o <<",">> \o NumberToString(z)

KeyOf(p) == keyFromPosition(p[1], p[2], p[3])

\* ------------------------------------------------------------- terrain
\* generateTerrain: a height-mapped terrain of unit cubes over a bounded
\* footprint.  Here: one column of five cubes at (5,.,5), from the floor
\* layer y = 0 up to (5,4,5); the top cube is grass, the ones below dirt.
TerrainList ==
    << <<5, 0, 5>>, <<5, 1, 5>>, <<5, 2, 5>>, <<5, 3, 5>>, <<5, 4, 5>> >>

TerrainKind(p) ==
    IF \E i \in 1..Len(TerrainList) :
          /\ TerrainList[i][1] = p[1] /\ TerrainList[i][3] = p[3]
          /\ TerrainList[i][2] > p[2]
    THEN "dirt" ELSE "grass"

\* Render handles created by the effect, in creation order: the ground's
\* geometry and material, then the terrain's shared box geometry and one
\* material per kind.
GroundGeometry == 1
GroundMaterial == 2
TerrainGeometry == 3
TerrainMaterial(kind) == IF kind = "dirt" THEN 4 ELSE 5

MountHandles == <<"geometry", "material", "geometry", "material", "material">>

\* The ground plane: a mesh without userData, lying at y = -2.5, that is
\* on the lower face of the cells with y = GroundCellY.
GroundObject ==
    [isVoxel |-> FALSE, geometry |-> GroundGeometry, material |-> GroundMaterial]

GroundCellY == 0 - 2

TerrainMesh(p) ==
    [isVoxel |-> TRUE, position |-> p, materialKey |-> TerrainKind(p),
     geometry |-> TerrainGeometry, material |-> TerrainMaterial(TerrainKind(p))]

\* The scene graph's objects after the effect ran: object 1 is the ground
\* plane, objects 2.. are the terrain meshes.
MountObjects ==
    <<GroundObject>> \o [i \in 1..Len(TerrainList) |-> TerrainMesh(TerrainList[i])]

\* generateTerrain's registry: key -> {mesh, geometry, material, materialKey}
TerrainRegistry ==
    [k \in {KeyOf(TerrainList[i]) : i \in 1..Len(TerrainList)} |->
        LET i == CHOOSE j \in 1..Len(TerrainList) : KeyOf(TerrainList[j]) = k
        IN  [mesh |-> i + 1,
             geometry |-> TerrainGeometry,
             material |-> TerrainMaterial(TerrainKind(TerrainList[i])),
             materialKey |-> TerrainKind(TerrainList[i])]]

\* ---------------------------------------------------------------- state
VARIABLES
    voxels,         \* voxelsRef.current: key -> registry entry
    objects,        \* every THREE.Object3D with userData ever created (by id)
    sceneChildren,  \* scene.children: ids of the objects in the scene
    handles,        \* every geometry / material ever created, by id: its kind
    disposed,       \* ids of the handles dispose() was called on
    blockCount,     \* React state blockCount
    rendererRef,    \* rendererRef.current is set
    listening,      \* the effect's listeners are registered (cleanup pending)
    mounts,         \* number of times the effect ran
    domMounted,     \* the component is mounted (mountRef.current is set)
    pointerLock,    \* document.pointerLockElement === renderer.domElement
    frameRequests,  \* ids of the animation frames requested and not yet run or cancelled
    animationRef,   \* animationRef.current: last requested frame id (0: unset)
    camY,           \* camera.position.y, in 1/PosScale
    velocity,       \* velocityRef.current, <<x, y, z>> in 1/VelScale per second
    keys,           \* keysRef.current
    now,            \* last reading of performance.now() (ms); the clock's oldTime
    lastFrame,      \* lastFrameRef.current (ms)
    fps,            \* React state fps
    position,       \* React state position (y only), in 1/PosScale
    pubLog          \* history: the clock reading of each publication of the tick loop

worldVars == <<voxels, objects, sceneChildren, handles, disposed, blockCount>>
lifeVars == <<rendererRef, listening, mounts, domMounted, frameRequests, animationRef>>
moveVars == <<camY, velocity, keys>>
clockVars == <<now, lastFrame, fps, position, pubLog>>
vars == <<worldVars, lifeVars, pointerLock, moveVars, clockVars>>

Normals ==
    { <<1, 0, 0>>, <<0 - 1, 0, 0>>, <<0, 1, 0>>, <<0, 0 - 1, 0>>, <<0, 0, 1>>, <<0, 0, 0 - 1>> }

VoxelMeshes == {id \in sceneChildren : objects[id].isVoxel}

Init ==
    /\ voxels = <<>>
    /\ objects = <<>>
    /\ sceneChildren = {}
    /\ handles = <<>>
    /\ disposed = {}
    /\ blockCount = 0
    /\ rendererRef = FALSE
    /\ listening = FALSE
    /\ mounts = 0
    /\ domMounted = FALSE
    /\ pointerLock = FALSE
    /\ frameRequests = {}
    /\ animationRef = 0
    /\ camY = 0
    /\ velocity = <<0, 0, 0>>
    /\ keys = {}
    /\ now = 0
    /\ lastFrame = 0
    /\ fps = 0
    /\ position = 0
    /\ pubLog = <<>>

\* ------------------------------------------------------------ raycaster
\* raycaster.intersectObjects(scene.children, false): the hits of the ray
\* through the screen centre, nearest first.  A ray is an input of the
\* click (the camera's pose is the player's): either the camera sits inside
\* cell (x, cy, z) and looks straight down, or it is any other ray, given
\* by the voxel face it meets first, or it meets nothing.  The materials
\* are front-sided, so the cube the camera is inside of is not hit.
RECURSIVE SetToSeq(_)
SetToSeq(S) ==
    IF S = {} THEN <<>>
    ELSE LET e == CHOOSE e \in S : TRUE IN <<e>> \o SetToSeq(S \ {e})

MeshesAt(p) == {id \in VoxelMeshes : objects[id].position = p}

LowestCellY ==
    LET ys == {objects[id].position[2] : id \in VoxelMeshes} \cup {GroundCellY}
    IN  CHOOSE y \in ys : \A w \in ys : y <= w

RECURSIVE ScanDown(_, _, _)
ScanDown(x, z, y) ==
    IF y < LowestCellY THEN <<>>
    ELSE [i \in 1..Cardinality(MeshesAt(<<x, y, z>>)) |->
             [object |-> SetToSeq(MeshesAt(<<x, y, z>>))[i], face |-> <<0, 1, 0>>]]
         \o (IF y = GroundCellY /\ 1 \in sceneChildren
             THEN <<[object |-> 1, face |-> <<0, 1, 0>>]>> ELSE <<>>)
         \o ScanDown(x, z, y - 1)

RayColumns == { <<5, 5>>, <<6, 5>> }
RayCellYs == {5, 18}

\* The camera is never below the floor height (line 121).  So a ray can meet
\* the face with normal n of the cube at p only if the camera can be on the
\* outer side of that face: a bottom face has to lie above the floor height,
\* and when the cell in front of the face holds a cube, the camera has to be
\* inside that cube.
FaceVisible(p, n) ==
    /\ n = <<0, 0 - 1, 0>> => p[2] > FLOOR_HEIGHT
    /\ MeshesAt(<<p[1] + n[1], p[2] + n[2], p[3] + n[3]>>) # {} => p[2] + n[2] >= FLOOR_HEIGHT

Rays ==
    {[kind |-> "down", x |-> c[1], z |-> c[2], cy |-> cy] : c \in RayColumns, cy \in RayCellYs}
    \cup UNION {{[kind |-> "face", object |-> id, normal |-> n] :
                    n \in {m \in Normals : FaceVisible(objects[id].position, m)}} :
                 id \in VoxelMeshes}
    \cup {[kind |-> "sky"]}

intersectObjects(ray) ==
    CASE ray.kind = "down" -> ScanDown(ray.x, ray.z, ray.cy - 1)
      [] ray.kind = "face" -> <<[object |-> ray.object, face |-> ray.normal]>>
      [] OTHER -> <<>>

\* ---------------------------------------------------- interactWithVoxel
\* the value of a function of one argument (used to name a value once: the
\* raycaster's answer, const intersects = ...)
Only(f) == f[CHOOSE x \in DOMAIN f : TRUE]

\* (mutant) the farthest voxel hit instead of the nearest
FindVoxelHit_Farthest(intersects) ==
    IF \E i \in 1..Len(intersects) : objects[intersects[i].object].isVoxel
    THEN CHOOSE i \in 1..Len(intersects) :
            /\ objects[intersects[i].object].isVoxel
            /\ \A j \in (i + 1)..Len(intersects) : ~objects[intersects[j].object].isVoxel
    ELSE 0

\* intersects.find((hit) => hit.object.userData?.isVoxel): 0 when none
FindVoxelHit(intersects) ==
    IF \E i \in 1..Len(intersects) : objects[intersects[i].object].isVoxel
    THEN CHOOSE i \in 1..Len(intersects) :
            /\ objects[intersects[i].object].isVoxel
            /\ \A j \in 1..(i - 1) : ~objects[intersects[j].object].isVoxel
    ELSE 0

\* (mutant) only the layers below the floor layer are protected
FloorProtected_Strict(y) == y < 0

\* if (y <= 0) return;
FloorProtected(y) == y <= 0

\* (mutant) the cell behind the face instead of the one in front of it
TargetPosition_Behind(voxel, normal) ==
    <<voxel[1] - normal[1], voxel[2] - normal[2], voxel[3] - normal[3]>>

\* voxel.clone().add(normal)
TargetPosition(voxel, normal) ==
    <<voxel[1] + normal[1], voxel[2] + normal[2], voxel[3] + normal[3]>>

\* voxelsRef.current.has(key)
RegistryHas(reg, key) == key \in DOMAIN reg

\* (mutant) the record is left in the registry
RegistryDelete_Keep(reg, key) == reg

\* voxelsRef.current.delete(key)
RegistryDelete(reg, key) == [k \in (DOMAIN reg) \ {key} |-> reg[k]]

\* voxelsRef.current.set(key, entry)
RegistrySet(reg, key, entry) ==
    [k \in (DOMAIN reg) \cup {key} |-> IF k = key THEN entry ELSE reg[k]]

\* (mutant) the size read before the edit
MapSize_Stale(reg) == Cardinality(DOMAIN voxels)

\* voxelsRef.current.size
MapSize(reg) == Cardinality(DOMAIN reg)

\* scene.remove(object)
SceneRemove(children, id) == children \ {id}

\* the world as interactWithVoxel finds it
World ==
    [voxels |-> voxels, objects |-> objects, sceneChildren |-> sceneChildren,
     handles |-> handles, blockCount |-> blockCount]

\* mode === "remove": the world it leaves
RemoveRecord(id, left) ==
    [World EXCEPT !.sceneChildren = SceneRemove(sceneChildren, id),
                  !.voxels = left,
                  !.blockCount = MapSize(left)]

RemoveVoxel(id) ==
    LET p == objects[id].position
    IN  IF FloorProtected(p[2])
        THEN World
        ELSE RemoveRecord(id, RegistryDelete(voxels, keyFromPosition(p[1], p[2], p[3])))

\* (mutant) the new voxel always gets the default kind
InheritedKind_Default(found, srcKey) == "grass"

\* entry?.materialKey ?? "grass"
InheritedKind(found, srcKey) == IF found THEN voxels[srcKey].materialKey ELSE "grass"

\* lines 68-83: the new mesh at targetPosition, registered under key, made
\* from the registry entry of the picked voxel (found: the registry has one)
PlaceVoxel(targetPosition, key, found, srcKey) ==
    LET \* entry?.material ?? new MeshStandardMaterial, entry?.geometry ?? new BoxGeometry
        fresh == IF found THEN <<>> ELSE <<"material", "geometry">>
        geometry == IF found THEN voxels[srcKey].geometry ELSE Len(handles) + 2
        \* material.clone()
        clone == Len(handles) + Len(fresh) + 1
        materialKey == InheritedKind(found, srcKey)
        mesh == Len(objects) + 1
        registry == RegistrySet(voxels, key,
                    [mesh |-> mesh, geometry |-> geometry,
                     material |-> clone, materialKey |-> materialKey])
    IN  [voxels |-> registry,
         objects |-> Append(objects,
                    [isVoxel |-> TRUE, position |-> targetPosition,
                     materialKey |-> materialKey,
                     geometry |-> geometry, material |-> clone]),
         sceneChildren |-> sceneChildren \cup {mesh},
         handles |-> handles \o fresh \o <<"material">>,
         blockCount |-> MapSize(registry)]

\* lines 65-66: if (voxelsRef.current.has(key)) return;
AddAt(voxel, targetPosition, key) ==
    IF RegistryHas(voxels, key)
    THEN World
    ELSE PlaceVoxel(targetPosition, key,
                    RegistryHas(voxels, keyFromPosition(voxel[1], voxel[2], voxel[3])),
                    keyFromPosition(voxel[1], voxel[2], voxel[3]))

AddTarget(voxel, targetPosition) ==
    AddAt(voxel, targetPosition,
          keyFromPosition(targetPosition[1], targetPosition[2], targetPosition[3]))

\* mode === "add": the world it leaves
AddVoxel(id, normal) ==
    AddTarget(objects[id].position, TargetPosition(objects[id].position, normal))

\* (mutant) an add that picks nothing places a default voxel at the origin
MissWorld_Place(mode) ==
    IF mode = "add" /\ ~RegistryHas(voxels, keyFromPosition(0, 0, 0))
    THEN PlaceVoxel(<<0, 0, 0>>, keyFromPosition(0, 0, 0), FALSE, <<>>)
    ELSE World

\* if (!intersect) return;
MissWorld(mode) == World

\* interactWithVoxel(mode) with the raycaster's answer `intersects`: the
\* world it leaves.  A hit on a Mesh always carries its face, so
\* `if (!face) return` never fires.
InteractWithHit(mode, intersects, i) ==
    IF ~rendererRef
    THEN World
    ELSE IF i = 0
         THEN MissWorld(mode)
         ELSE IF mode = "remove"
              THEN RemoveVoxel(intersects[i].object)
              ELSE AddVoxel(intersects[i].object, intersects[i].face)

interactWithVoxel(mode, intersects) ==
    Only([hits \in {intersects} |->
            Only([i \in {FindVoxelHit(hits)} |-> InteractWithHit(mode, hits, i)])])

\* (mutant) the buttons are swapped
ModeOf_Swapped(button) == IF button = 2 THEN "remove" ELSE "add"

\* event.button === 2 ? "add" : "remove"
ModeOf(button) == IF button = 2 THEN "add" ELSE "remove"

\* what onMouseDown(event) makes of the world, the ray being where the
\* player looks; without the lock it only calls requestPointerLock()
MouseDownWorld(button, ray) ==
    IF ~pointerLock
    THEN World
    ELSE interactWithVoxel(ModeOf(button), intersectObjects(ray))

onMouseDown(button, ray) ==
    /\ listening
    /\ \E w \in {MouseDownWorld(button, ray)} :
           /\ voxels' = w.voxels
           /\ objects' = w.objects
           /\ sceneChildren' = w.sceneChildren
           /\ handles' = w.handles
           /\ blockCount' = w.blockCount
    /\ UNCHANGED <<disposed, lifeVars, pointerLock, moveVars, clockVars>>

\* ------------------------------------------------------- updateMovement
Abs(n) == IF n < 0 THEN 0 - n ELSE n
Max(a, b) == IF a >= b THEN a ELSE b
Min(a, b) == IF a <= b THEN a ELSE b
\* rounding of a quotient towards zero (the model's fixed-point rounding)
TruncDiv(a, b) == IF a >= 0 THEN a \div b ELSE 0 - ((0 - a) \div b)

\* direction after the four key tests, before normalize(): <<x, z>>
KeyDirection(held) ==
    << (IF "KeyD" \in held THEN 1 ELSE 0) - (IF "KeyA" \in held THEN 1 ELSE 0),
       (IF "KeyS" \in held THEN 1 ELSE 0) - (IF "KeyW" \in held THEN 1 ELSE 0) >>

\* direction.normalize(), in thousandths: a diagonal has components 0.707
Normalize(d) ==
    IF d[1] # 0 /\ d[2] # 0 THEN <<707 * d[1], 707 * d[2]>>
    ELSE <<1000 * d[1], 1000 * d[2]>>

\* (mutant) only the left Shift key sprints
SpeedTenths_LeftOnly(held) ==
    IF "ShiftLeft" \in held THEN MOVE_SPEED * SPRINT_TENTHS ELSE MOVE_SPEED * 10

\* speed = MOVE_SPEED * (sprint ? SPRINT_MULTIPLIER : 1), in tenths
SpeedTenths(held) ==
    IF "ShiftLeft" \in held \/ "ShiftRight" \in held
    THEN MOVE_SPEED * SPRINT_TENTHS ELSE MOVE_SPEED * 10

\* velocity.x -= direction.x * speed * delta  (the amount subtracted)
Injection(dirMilli, held, delta) ==
    TruncDiv(dirMilli * SpeedTenths(held) * delta, 10000)

\* if (direction.lengthSq() > 0) { velocity.x -= ...; velocity.z -= ...; }
\* the amounts subtracted from <<velocity.x, velocity.z>>
InjectedAlong(dir, held, delta) ==
    IF dir # <<0, 0>>
    THEN <<Injection(dir[1], held, delta), Injection(dir[2], held, delta)>>
    ELSE <<0, 0>>

Injected(delta, held) == InjectedAlong(Normalize(KeyDirection(held)), held, delta)

\* (mutant) no terminal velocity
Gravitate_NoCap(vy, delta) == vy - GRAVITY * delta

\* velocity.y = Math.max(velocity.y - GRAVITY * delta, -TERMINAL_VELOCITY)
Gravitate(vy, delta) ==
    Max(vy - GRAVITY * delta, 0 - TERMINAL_VELOCITY * VelScale)

\* (mutant) the floor test never fires
BelowFloor_Never(y) == FALSE

\* (mutant) the clamp is at height 0
BelowFloor_Zero(y) == y < 0

\* if (camera.position.y < 3)
BelowFloor(y) == y < FLOOR_HEIGHT * PosScale

\* velocity.x -= velocity.x * 8 * delta
Damp(v, delta) == v - TruncDiv(v * DAMPING * delta, 1000)

\* updateMovement(delta), delta in ms: the new velocity and camera height.
\* (controls.moveRight / moveForward move the camera in its own horizontal
\* plane and leave camera.position.y alone.)
updateMovement(delta, held, v, y) ==
    LET vx == v[1] - Injected(delta, held)[1]
        vz == v[3] - Injected(delta, held)[2]
        vy == Gravitate(v[2], delta)
        y1 == y + vy * delta
        clamp == BelowFloor(y1)
    IN  [velocity |-> <<Damp(vx, delta), IF clamp THEN 0 ELSE vy, Damp(vz, delta)>>,
         camY |-> IF clamp THEN FLOOR_HEIGHT * PosScale ELSE y1]

\* ---------------------------------------------------------------- animate
\* Math.round(1 / delta)
RoundedFps(delta) ==
    IF delta = 0 THEN "Infinity" ELSE (2000 + delta) \div (2 * delta)

\* (mutant) the interval is compared with 200 ms
PublishDue_Early(elapsed) == elapsed >= THROTTLE_MS - 50

\* if (elapsed >= 250)
PublishDue(elapsed) == elapsed >= THROTTLE_MS

\* the history keeps the clock readings of the last two publications
LastTwo(log) == IF Len(log) > 2 THEN Tail(log) ELSE log

\* (mutant) the clock's delta is used as it is
ClampedDelta_Raw(t) == t - now

\* Math.min(clock.getDelta(), 0.05), the clock having last been read at `now`
ClampedDelta(t) == Min(t - now, MAX_DELTA_MS)

\* One run of animate() when the clock reads t and getDelta() gives delta,
\* starting from velocity v and camera height y: movement, telemetry, and
\* the next frame request.
AnimateBody(t, delta, v, y) ==
    \E moved \in {updateMovement(delta, keys, v, y)} :
        /\ velocity' = moved.velocity
        /\ camY' = moved.camY
        /\ now' = t
        /\ IF PublishDue(t - lastFrame)
           THEN /\ fps' = RoundedFps(delta)
                /\ position' = moved.camY
                /\ lastFrame' = t
                /\ pubLog' = LastTwo(Append(pubLog, t))
           ELSE UNCHANGED <<fps, position, lastFrame, pubLog>>
        /\ animationRef' = animationRef + 1
        /\ frameRequests' = (frameRequests \ {animationRef}) \cup {animationRef + 1}

\* the frame callback, dt ms after the previous clock reading
animate(dt) ==
    /\ animationRef \in frameRequests
    /\ AnimateBody(now + dt, ClampedDelta(now + dt), velocity, camY)
    /\ UNCHANGED <<worldVars, rendererRef, listening, mounts, domMounted, pointerLock, keys>>

\* ------------------------------------------------------------ the effect
\* useEffect body, run `wait` ms after the component was constructed
Mount(wait) ==
    /\ ~domMounted
    /\ mounts < MaxMounts
    /\ domMounted' = TRUE
    /\ mounts' = mounts + 1
    /\ IF rendererRef
       THEN \* if (!mount || rendererRef.current) return;
            UNCHANGED <<worldVars, rendererRef, listening, frameRequests, animationRef,
                        pointerLock, moveVars, clockVars>>
       ELSE /\ handles' = handles \o MountHandles
            /\ objects' = MountObjects
            /\ sceneChildren' = 1..Len(MountObjects)
            /\ voxels' = TerrainRegistry
            /\ blockCount' = MapSize(TerrainRegistry)
            /\ rendererRef' = TRUE
            /\ listening' = TRUE
            \* clock.start(); animate(): the clock was just started, delta is 0
            /\ AnimateBody(now + wait, 0, velocity, CAMERA_START_Y * PosScale)
            /\ UNCHANGED <<disposed, pointerLock, keys>>

\* scene.traverse(...): the geometry and the material of each object in the scene
SceneHandles == UNION {{objects[id].geometry, objects[id].material} : id \in sceneChildren}

\* the component unmounts: the effect's cleanup, when the effect returned one
Unmount ==
    /\ domMounted
    /\ domMounted' = FALSE
    /\ IF listening
       THEN /\ frameRequests' = frameRequests \ {animationRef}
            /\ listening' = FALSE
            /\ disposed' = disposed \cup SceneHandles
       ELSE UNCHANGED <<frameRequests, listening, disposed>>
    /\ UNCHANGED <<voxels, objects, sceneChildren, handles, blockCount, rendererRef, mounts,
                   animationRef, pointerLock, moveVars, clockVars>>

\* ------------------------------------------------------- input handlers
\* onPointerLockChange, isLocked being the new state of the lock
\* (mutant) the held keys survive the release
ReleaseInput_KeepKeys(held, v) == [keys |-> held, velocity |-> <<0, 0, 0>>]

\* keysRef.current.clear(); velocityRef.current.set(0, 0, 0);
ReleaseInput(held, v) == [keys |-> {}, velocity |-> <<0, 0, 0>>]

onPointerLockChange(isLocked) ==
    /\ listening
    /\ isLocked # pointerLock
    /\ pointerLock' = isLocked
    /\ IF ~isLocked
       THEN /\ keys' = ReleaseInput(keys, velocity).keys
            /\ velocity' = ReleaseInput(keys, velocity).velocity
       ELSE UNCHANGED <<keys, velocity>>
    /\ UNCHANGED <<worldVars, lifeVars, camY, clockVars>>

\* (mutant) a jump is allowed at any vertical velocity
JumpAllowed_Always(vy) == TRUE

\* event.code === "Space" && Math.abs(velocityRef.current.y) < 0.05
JumpAllowed(vy) == Abs(vy) < JUMP_THRESHOLD_MILLI

\* the velocity onKeyDown leaves
KeyDownVelocity(code, v) ==
    IF code = "Space" /\ JumpAllowed(v[2])
    THEN <<v[1], JUMP_FORCE * VelScale, v[3]>>
    ELSE v

onKeyDown(code) ==
    /\ listening
    /\ keys' = keys \cup {code}
    /\ velocity' = KeyDownVelocity(code, velocity)
    /\ UNCHANGED <<worldVars, lifeVars, pointerLock, camY, clockVars>>

onKeyUp(code) ==
    /\ listening
    /\ keys' = keys \ {code}
    /\ UNCHANGED <<worldVars, lifeVars, pointerLock, camY, velocity, clockVars>>

\* ------------------------------------------------------- specifications
Buttons == {0, 2}
MountWaits == {0, 300}
TickSteps == {17, 50, 300}

\* a frame callback, the clock not yet past `cap`
Tick(steps, cap) ==
    \E dt \in steps : now + dt <= cap /\ animate(dt)

\* a click with one of `buttons`; it may add while fewer than `cap` objects
\* were ever created
Click(buttons, cap) ==
    \E b \in buttons : \E ray \in Rays :
        /\ b = 2 => Len(objects) < cap
        /\ onMouseDown(b, ray)

\* World edits: the effect, the pointer lock being taken, and the mouse.
\* (Releasing the lock touches keys and velocity only: see SpecInput.)
NextEdit ==
    \/ Mount(0)
    \/ onPointerLockChange(TRUE)
    \/ Click(Buttons, MaxObjects)

SpecEdit == Init /\ [][NextEdit]_vars

\* Placing only: the effect, the pointer lock being taken, right clicks.
NextAdd ==
    \/ Mount(0)
    \/ onPointerLockChange(TRUE)
    \/ Click({2}, Len(MountObjects) + MaxAdds)

SpecAdd == Init /\ [][NextAdd]_vars

\* Clicks with and without the lock: the effect, the pointer lock taken and
\* released, and the left and right mouse buttons.  (The middle button, 1,
\* is told from the right one by the same test as the left one.)
AllButtons == {0, 1, 2}

NextClick ==
    \/ Mount(0)
    \/ \E b \in BOOLEAN : onPointerLockChange(b)
    \/ Click(Buttons, Len(MountObjects) + MaxClickAdds)

SpecClick == Init /\ [][NextClick]_vars

\* Telemetry: the effect, run at once or late, and the frame loop at
\* 60 and 20 frames per second and with hitches.
NextTelemetry ==
    \/ \E w \in MountWaits : Mount(w)
    \/ Tick(TickSteps, MaxTelemetryNow)

SpecTelemetry == Init /\ [][NextTelemetry]_vars

\* Jumping: the effect, the frame loop at 60 and 20 frames per second, and
\* the Space key pressed (or auto-repeated) and released at any moment.
NextMove ==
    \/ Mount(0)
    \/ Tick({17, 50}, MaxMoveNow)
    \/ onKeyDown("Space")
    \/ onKeyUp("Space")

SpecMove == Init /\ [][NextMove]_vars

\* Long flights: the effect, the frame loop at 20 frames per second for long
\* enough to land, to climb by jumps and to reach the terminal velocity, the
\* Space key, and the pointer lock taken and released early in the session.
NextJump ==
    \/ Mount(0)
    \/ Tick({50}, MaxJumpNow)
    \/ onKeyDown("Space")
    \/ \E b \in BOOLEAN : now <= MaxLockNow /\ onPointerLockChange(b)

SpecJump == Init /\ [][NextJump]_vars

\* Steering: the effect, two frames, and the direction and Shift keys
\* pressed and released in any combination.
SteerCodes == {"KeyW", "KeyS", "KeyA", "KeyD", "ShiftLeft", "ShiftRight"}

NextSteer ==
    \/ Mount(0)
    \/ Tick({50}, MaxSteerNow)
    \/ \E c \in SteerCodes : onKeyDown(c)
    \/ \E c \in SteerCodes : onKeyUp(c)

SpecSteer == Init /\ [][NextSteer]_vars

\* Held keys: the effect, a few frames, the keys and the pointer lock.
InputCodes == {"Space", "KeyW", "ShiftLeft"}

NextInput ==
    \/ Mount(0)
    \/ Tick({50}, MaxInputNow)
    \/ \E c \in InputCodes : onKeyDown(c)
    \/ \E c \in InputCodes : onKeyUp(c)
    \/ \E b \in BOOLEAN : onPointerLockChange(b)

SpecInput == Init /\ [][NextInput]_vars

\* Free fall: the effect and the frame loop alone, both of which keep running.
NextFall ==
    \/ Mount(0)
    \/ Tick({25, 50}, MaxNow)

SpecFall ==
    /\ Init
    /\ [][NextFall]_vars
    /\ WF_vars(Mount(0))
    /\ WF_vars(Tick({25, 50}, MaxNow))

\* Life cycle: mounting and unmounting, a few frames, the lock and the mouse.
NextLife ==
    \/ Mount(0)
    \/ Unmount
    \/ Tick({50}, MaxLifeNow)
    \/ onPointerLockChange(TRUE)
    \/ Click(Buttons, MaxObjects)

SpecLife == Init /\ [][NextLife]_vars

\* ------------------------------------------------------------ properties
RegistrySize == Cardinality(DOMAIN voxels)
TerrainSize == Cardinality(DOMAIN TerrainRegistry)
UserMeshes == {id \in VoxelMeshes : id > Len(MountObjects)}
RemovedMeshes == {id \in 1..Len(objects) : id \notin sceneChildren}

\* the voxel a click along `ray` picks (0: none), and the face it is hit on
\* the hit a click along `ray` picks: <<object, face>>, <<0, 0>> when none
HitAt(hits, i) == IF i = 0 THEN <<0, 0>> ELSE <<hits[i].object, hits[i].face>>
HitOf(hits) == Only([i \in {FindVoxelHit(hits)} |-> HitAt(hits, i)])
PickedHit(ray) == Only([hits \in {intersectObjects(ray)} |-> HitOf(hits)])

\* C1: every key of the registry has exactly one voxel mesh in the scene whose
\* stored position encodes to that key (the mesh the record names), every voxel
\* mesh in the scene has its key in the registry, and no two voxel meshes
\* occupy the same cell.
C1_RegistryMatchesScene ==
    \A keyOfMesh \in {[id \in VoxelMeshes |-> KeyOf(objects[id].position)]} :
       /\ \A k \in DOMAIN voxels :
             /\ Cardinality({id \in VoxelMeshes : keyOfMesh[id] = k}) = 1
             /\ voxels[k].mesh \in VoxelMeshes
             /\ keyOfMesh[voxels[k].mesh] = k
       /\ \A id \in VoxelMeshes : keyOfMesh[id] \in DOMAIN voxels
       /\ \A a, b \in VoxelMeshes : objects[a].position = objects[b].position => a = b

\* an add and a remove have both succeeded
C1_Witness ==
    /\ UserMeshes # {}
    /\ \E id \in RemovedMeshes : id <= Len(MountObjects)

\* C2: a remove click whose picked voxel has Y <= 0 leaves the registry, the
\* scene and the block count as they are, and every voxel ever created at
\* Y <= 0, by the terrain or by the user, is still in the scene and in the
\* registry.
C2_FloorNeverRemoved ==
    /\ (listening /\ pointerLock) =>
          \A ray \in Rays : \A hit \in {PickedHit(ray)} :
             (hit[1] # 0 /\ objects[hit[1]].position[2] <= 0)
             => MouseDownWorld(0, ray) = World
    /\ \A id \in 1..Len(objects) :
          (objects[id].isVoxel /\ objects[id].position[2] <= 0)
          => /\ id \in sceneChildren
             /\ KeyOf(objects[id].position) \in DOMAIN voxels
             /\ voxels[KeyOf(objects[id].position)].mesh = id

\* the user placed a voxel at Y <= 0, a terrain voxel above the floor was
\* removed, and the lock is held so that a click edits
C2_Witness ==
    /\ listening /\ pointerLock
    /\ \E id \in UserMeshes : objects[id].position[2] <= 0
    /\ \E id \in RemovedMeshes : id <= Len(MountObjects)

\* what C3 asks of an add that picked the voxel at p on the face with normal n,
\* w being the world the click leaves
AddedAt(p, n, w) ==
    LET t == <<p[1] + n[1], p[2] + n[2], p[3] + n[3]>>
    IN  IF \E id \in VoxelMeshes : objects[id].position = t
        THEN w.voxels = voxels /\ w.sceneChildren = sceneChildren /\ w.blockCount = blockCount
        ELSE \A k \in {KeyOf(t)} :
             /\ Cardinality(DOMAIN w.voxels) = RegistrySize + 1
             /\ DOMAIN w.voxels = DOMAIN voxels \cup {k}
             /\ \A j \in DOMAIN voxels : w.voxels[j] = voxels[j]
             /\ w.voxels[k].mesh \notin sceneChildren
             /\ w.sceneChildren = sceneChildren \cup {w.voxels[k].mesh}
             /\ w.objects[w.voxels[k].mesh].position = t

\* C3: an add click whose picked voxel is at p with face normal n targets the
\* cell p + n (for n = (0,1,0): (x, y+1, z)): when the cell is empty the click
\* creates one voxel exactly there and the registry grows by one, when it is
\* occupied the click changes neither the registry nor the scene.
C3_AddAdjacent ==
    (listening /\ pointerLock) =>
       \A ray \in Rays : \A hit \in {PickedHit(ray)} :
          hit[1] # 0
          => \A w \in {MouseDownWorld(2, ray)} :
                AddedAt(objects[hit[1]].position, hit[2], w)

\* a voxel was placed on the top face of (5,4,5): the cell (5,5,5) is now
\* occupied, and the lock is held, so that the same add again is the no-op
C3_Witness ==
    /\ listening /\ pointerLock
    /\ \E id \in UserMeshes : objects[id].position = <<5, 5, 5>>
    /\ KeyOf(<<5, 5, 5>>) \in DOMAIN voxels

\* The scenario of C4: the camera is in the column of (5,4,5), inside cell
\* (5,cy,5), looking straight down.
ScenarioRay(cy) == [kind |-> "down", x |-> 5, z |-> 5, cy |-> cy]
AtTerrain == DOMAIN voxels = DOMAIN TerrainRegistry
AfterScenarioAdd == DOMAIN voxels = DOMAIN TerrainRegistry \cup {KeyOf(<<5, 5, 5>>)}

\* the right-click on the terrain: N + 1 records, one of them at (5,5,5)
ScenarioAdd(cy) ==
    (AtTerrain /\ listening /\ pointerLock)
    => \A w \in {MouseDownWorld(2, ScenarioRay(cy))} :
           /\ Cardinality(DOMAIN w.voxels) = TerrainSize + 1
           /\ KeyOf(<<5, 5, 5>>) \in DOMAIN w.voxels
           /\ w.blockCount = TerrainSize + 1

\* C4 as stated: the right-click gives N+1 records and a record at (5,5,5); the
\* following left-click at the same spot gives N records and the record at
\* (5,4,5) is gone.
C4_AsStated ==
    \A cy \in RayCellYs :
       /\ ScenarioAdd(cy)
       /\ (AfterScenarioAdd /\ listening /\ pointerLock)
          => \A w \in {MouseDownWorld(0, ScenarioRay(cy))} :
                 /\ Cardinality(DOMAIN w.voxels) = TerrainSize
                 /\ KeyOf(<<5, 4, 5>>) \notin DOMAIN w.voxels

\* C4 (amended): the right-click gives N+1 records and a record at (5,5,5); the
\* following left-click at the same spot gives N records again, and the record
\* that is gone is that of the nearest voxel on the ray: the voxel just placed
\* at (5,5,5) when the camera is above it (the record at (5,4,5) stays), and
\* (5,4,5) only when the camera is inside the cell (5,5,5).
C4_Scenario ==
    \A cy \in RayCellYs :
       /\ ScenarioAdd(cy)
       /\ (AfterScenarioAdd /\ listening /\ pointerLock)
          => \A w \in {MouseDownWorld(0, ScenarioRay(cy))} :
                 /\ Cardinality(DOMAIN w.voxels) = TerrainSize
                 /\ w.blockCount = TerrainSize
                 /\ IF cy > 5
                    THEN /\ KeyOf(<<5, 5, 5>>) \notin DOMAIN w.voxels
                         /\ KeyOf(<<5, 4, 5>>) \in DOMAIN w.voxels
                    ELSE /\ KeyOf(<<5, 4, 5>>) \notin DOMAIN w.voxels
                         /\ KeyOf(<<5, 5, 5>>) \in DOMAIN w.voxels

\* the add and then the remove of the scenario have run with the camera above:
\* the voxel placed at (5,5,5) is out of the scene and the terrain is back
C4_Witness ==
    /\ AtTerrain
    /\ listening /\ pointerLock
    /\ \E id \in RemovedMeshes : objects[id].isVoxel /\ objects[id].position = <<5, 5, 5>>
    /\ \A id \in 2..Len(MountObjects) : id \in sceneChildren

\* ------------------------------------------------------------- movement
JumpSpeed == JUMP_FORCE * VelScale
FloorY == FLOOR_HEIGHT * PosScale
AtRest == <<0, 0, 0>>

\* C5: a Space keydown while |velocity.y| is above the threshold (0.05) leaves
\* the velocity as it is; a Space keydown while |velocity.y| < 0.05 sets
\* velocity.y to exactly the jump speed (12) and leaves x and z alone.
C5_JumpGate ==
    [][onKeyDown("Space") =>
         /\ Abs(velocity[2]) > JUMP_THRESHOLD_MILLI => velocity' = velocity
         /\ Abs(velocity[2]) < JUMP_THRESHOLD_MILLI
            => velocity' = <<velocity[1], JumpSpeed, velocity[3]>>]_vars

\* a jump was granted after the frame loop had run: the velocity is the jump
\* speed, which gravity alone never produces
C5_Witness ==
    /\ listening
    /\ "Space" \in keys
    /\ velocity[2] = JumpSpeed
    /\ now > 0

\* C6: a jump impulse is only ever applied while the camera is at the floor
\* height: no Space keydown changes velocity.y while the camera is in the air.
C6_JumpOnlyAtFloor ==
    [][(onKeyDown("Space") /\ velocity'[2] # velocity[2]) => camY = FloorY]_vars

\* C7: from the start above the floor height with zero velocity, with no jump
\* and the frame loop running, the camera eventually is exactly at the floor
\* height with velocity.y = 0, and stays so after every later tick.
C7_FallsToFloor == <>[](rendererRef /\ camY = FloorY /\ velocity[2] = 0)

\* the camera has landed: it was clamped to the floor height by a tick
C7_Witness ==
    /\ rendererRef
    /\ now > 0
    /\ camY = FloorY
    /\ velocity[2] = 0

\* C8: a release of the pointer lock empties the held keys and zeroes the
\* velocity, whatever they were; and a key only becomes held by its own
\* keydown, so a key held at the release is not seen by a later tick unless it
\* is pressed again.
C8_ReleaseClearsInput ==
    [][/\ (pointerLock /\ ~pointerLock') => (keys' = {} /\ velocity' = AtRest)
       /\ \A c \in InputCodes : (c \notin keys /\ c \in keys') => onKeyDown(c)]_vars

\* the lock was released in mid-fall: after a tick the velocity is zero while
\* the camera is in the air below its start, and no key is held
C8_Witness ==
    /\ listening
    /\ ~pointerLock
    /\ now > 0
    /\ keys = {}
    /\ velocity = AtRest
    /\ camY > FloorY
    /\ camY < CAMERA_START_Y * PosScale

\* C9: every geometry and material the session creates is released: the
\* material made for a voxel the player placed is released when that voxel is
\* removed, and after teardown every handle ever created is released and no
\* frame is scheduled.
TornDown == rendererRef /\ ~listening

C9_AllHandlesReleased ==
    /\ \A id \in RemovedMeshes : id > Len(MountObjects) => objects[id].material \in disposed
    /\ TornDown => /\ \A h \in 1..Len(handles) : h \in disposed
                   /\ frameRequests = {}

\* C10: two consecutive publications of the frame loop are at least 250 ms
\* apart, lastFrameRef holding the time of the last one; so a tick less than
\* 250 ms after the last publication publishes nothing.
C10_Throttled ==
    /\ Len(pubLog) = 2 => pubLog[2] - pubLog[1] >= THROTTLE_MS
    /\ Len(pubLog) >= 1 => lastFrame = pubLog[Len(pubLog)]
    /\ pubLog = <<>> => (lastFrame = 0 /\ now < THROTTLE_MS)

\* the frame loop has published twice, and the clock has moved on since
C10_Witness ==
    /\ Len(pubLog) = 2
    /\ now > pubLog[2]

\* ---------------------------------------------------------------- picking
\* no object the ray meets is a voxel (it meets nothing, or the ground only)
NoVoxelOn(hits) == \A i \in 1..Len(hits) : ~objects[hits[i].object].isVoxel

\* C11: an add or a remove whose ray meets no voxel (the sky, or only the
\* ground plane) leaves the registry, the scene, the handles and the block
\* count as they are.
C11_MissIsNoOp ==
    (listening /\ pointerLock) =>
       \A ray \in Rays :
          NoVoxelOn(intersectObjects(ray))
          => \A b \in Buttons : MouseDownWorld(b, ray) = World

\* the lock is held over an edited world, and the ray down the empty column
\* (6,.,5) meets the ground plane and nothing else
C11_Witness ==
    /\ listening /\ pointerLock
    /\ UserMeshes # {}
    /\ \E hits \in {intersectObjects([kind |-> "down", x |-> 6, z |-> 5, cy |-> 18])} :
          /\ Len(hits) = 1
          /\ hits[1].object = 1
          /\ NoVoxelOn(hits)

\* ------------------------------------------------------------ the floor
\* the height a tick of `delta` ms integrates to, before the floor test
IntegratedY(delta) == camY + Gravitate(velocity[2], delta) * delta

FrameDeltas == {17, 50}

\* C12: once the camera exists its height is at least the floor height (3)
\* after every step; and a tick whose integrated height is below the floor
\* height ends with the height exactly 3 and velocity.y = 0.
C12_NeverBelowFloor ==
    rendererRef =>
       /\ camY >= FloorY
       /\ \A delta \in FrameDeltas :
             IntegratedY(delta) < FloorY
             => \A moved \in {updateMovement(delta, keys, velocity, camY)} :
                   moved.camY = FloorY /\ moved.velocity[2] = 0

\* the camera was clamped: it stands on the floor with zero vertical velocity,
\* Space having been pressed on the way, later than any change of the lock
C12_Witness ==
    /\ rendererRef
    /\ camY = FloorY
    /\ velocity[2] = 0
    /\ "Space" \in keys
    /\ ~pointerLock
    /\ now > MaxLockNow

\* -------------------------------------------------------- the frame loop
Pending == Cardinality(frameRequests)

\* C13: while the component is mounted the loop is running, after a first
\* mount as after a mount that follows an unmount: exactly one frame is
\* pending (each tick having requested exactly one); never more than one frame
\* is pending; and after teardown none is.
C13_LoopRunsWhileMounted ==
    /\ domMounted => Pending = 1
    /\ Pending <= 1
    /\ ~domMounted => Pending = 0

\* -------------------------------------------------------------- steering
\* the net axes the held direction keys leave: <<x, z>>
NetAxis(a, b) == IF (a \in keys) = (b \in keys) THEN 0 ELSE 1
NetDirection == <<NetAxis("KeyA", "KeyD"), NetAxis("KeyW", "KeyS")>>

\* speed * delta in 1/VelScale (speed in tenths, delta in ms)
SprintHeld == "ShiftLeft" \in keys \/ "ShiftRight" \in keys
ClaimedSpeedTenths == IF SprintHeld THEN MOVE_SPEED * SPRINT_TENTHS ELSE MOVE_SPEED * 10
ClaimedMagnitude(delta) == (ClaimedSpeedTenths * delta) \div 10

\* the fixed point holds a magnitude to two units of its last digit
Slack == VelScale \div 500
SquaredNorm(i) == i[1] * i[1] + i[2] * i[2]
HasMagnitude(i, m) ==
    /\ SquaredNorm(i) >= (m - Slack) * (m - Slack)
    /\ SquaredNorm(i) <= (m + Slack) * (m + Slack)

\* C14: in a tick with no net direction (no direction key held, or W with S
\* and / or A with D cancelling) nothing is injected and the horizontal
\* velocity changes by the damping step only; in a tick with a net direction
\* the injected velocity has magnitude speed * delta, speed being 12, or
\* 12 * 2.1 when either Shift key is held, and is damped with the rest.
C14_Injection ==
    rendererRef =>
       \A delta \in FrameDeltas :
          \A i \in {Injected(delta, keys)} :
          \A moved \in {updateMovement(delta, keys, velocity, camY)} :
             /\ NetDirection = <<0, 0>> => i = <<0, 0>>
             /\ NetDirection # <<0, 0>> => HasMagnitude(i, ClaimedMagnitude(delta))
             /\ NetDirection[1] = 0 => i[1] = 0
             /\ NetDirection[2] = 0 => i[2] = 0
             /\ moved.velocity[1] = Damp(velocity[1] - i[1], delta)
             /\ moved.velocity[3] = Damp(velocity[3] - i[2], delta)

\* after a tick that injected, W and S are both held with A and the right
\* Shift key: the forward axis cancels, a net sideways direction remains
C14_Witness ==
    /\ rendererRef
    /\ now > 0
    /\ velocity[3] # 0
    /\ {"KeyW", "KeyS", "KeyA", "ShiftRight"} \subseteq keys
    /\ "KeyD" \notin keys

\* ------------------------------------------------------------- materials
\* the kind C15 asks of a voxel added on the voxel at p
ExpectedKind(p) ==
    IF KeyOf(p) \in DOMAIN voxels THEN voxels[KeyOf(p)].materialKey ELSE "grass"

\* the records of w that the present registry does not have carry `kind`, in
\* the record and in the mesh's userData
NewRecordsHaveKind(w, kind) ==
    \A k \in (DOMAIN w.voxels) \ (DOMAIN voxels) :
       /\ w.voxels[k].materialKey = kind
       /\ w.objects[w.voxels[k].mesh].materialKey = kind

\* a cell no voxel will ever be in, for the add whose look-up misses
FarCell == <<0, 0 - 9, 0>>

\* C15: a voxel created by an add carries the material kind of the registry
\* record of the picked voxel, in its registry record and in its mesh's
\* userData alike; and the branch taken when the registry has no record of the
\* picked voxel gives both the kind "grass".
C15_MaterialInherited ==
    (listening /\ pointerLock) =>
       /\ \A ray \in Rays : \A hit \in {PickedHit(ray)} :
             hit[1] # 0
             => NewRecordsHaveKind(MouseDownWorld(2, ray), ExpectedKind(objects[hit[1]].position))
       /\ NewRecordsHaveKind(PlaceVoxel(FarCell, KeyOf(FarCell), FALSE, <<>>), "grass")
       /\ \A id \in UserMeshes :
             objects[id].materialKey = voxels[KeyOf(objects[id].position)].materialKey

\* a dirt voxel was placed beside the column (on a side face of a dirt
\* voxel), and a second voxel on top of that one, both dirt
C15_Witness ==
    /\ listening /\ pointerLock
    /\ \E a, b \in UserMeshes :
          /\ objects[a].materialKey = "dirt"
          /\ objects[b].materialKey = "dirt"
          /\ objects[a].position[1] # 5
          /\ objects[b].position = TargetPosition(objects[a].position, <<0, 1, 0>>)

\* ------------------------------------------------------------- the clock
\* the step is a frame callback (a frame was pending, and the clock was read)
IsTick == animationRef \in frameRequests /\ animationRef' = animationRef + 1

\* the step moved the camera as updateMovement(delta) does
MovedBy(delta) ==
    \E moved \in {updateMovement(delta, keys, velocity, camY)} :
        velocity' = moved.velocity /\ camY' = moved.camY

\* C16: every tick integrates the movement over an elapsed time of at most
\* 50 ms, however much later than the previous tick it runs.
C16_DeltaClamped ==
    [][IsTick => \E delta \in 0..MAX_DELTA_MS : MovedBy(delta)]_vars

\* a tick has run 300 ms after the effect: gravity acted for 50 ms only
C16_Witness ==
    /\ rendererRef
    /\ now = 300
    /\ pubLog = <<300>>
    /\ velocity[2] = 0 - GRAVITY * MAX_DELTA_MS
    /\ camY = CAMERA_START_Y * PosScale + velocity[2] * MAX_DELTA_MS

\* ------------------------------------------------- the vertical velocity
TerminalSpeed == TERMINAL_VELOCITY * VelScale

\* C17: in every reachable state the vertical velocity lies between
\* -TERMINAL_VELOCITY (-48) and the jump speed (+12), both included.
C17_VerticalVelocityBounded ==
    /\ velocity[2] >= 0 - TerminalSpeed
    /\ velocity[2] <= JumpSpeed

\* the camera, having climbed by jumps, falls at the terminal velocity, high
\* enough to stay in the air for another tick and with the loop still running
C17_Witness ==
    /\ rendererRef
    /\ "Space" \in keys
    /\ velocity[2] = 0 - TerminalSpeed
    /\ camY - TerminalSpeed * MAX_DELTA_MS >= FloorY
    /\ now + MAX_DELTA_MS <= MaxJumpNow

\* ------------------------------------------------------------ mouse down
\* an add on the face with normal n of the voxel at p took place: w is the
\* world as it was when the cell p + n is taken, and else has one record and
\* one mesh more, the record under the key of p + n
IsAdd(p, n, w) ==
    \A k \in {keyFromPosition(p[1] + n[1], p[2] + n[2], p[3] + n[3])} :
       IF k \in DOMAIN voxels
       THEN w = World
       ELSE /\ DOMAIN w.voxels = DOMAIN voxels \cup {k}
            /\ sceneChildren \subseteq w.sceneChildren
            /\ Cardinality(w.sceneChildren) = Cardinality(sceneChildren) + 1

\* a remove of the mesh id took place: w is the world as it was when the
\* voxel is in the floor layer or below, and else lacks its record and mesh
IsRemove(id, w) ==
    \A p \in {objects[id].position} :
       IF p[2] <= 0
       THEN w = World
       ELSE /\ DOMAIN w.voxels = DOMAIN voxels \ {KeyOf(p)}
            /\ w.sceneChildren = sceneChildren \ {id}

\* what C18 asks of the mouse-downs along a ray that picks `hit` while the
\* lock is held: button 2 adds, every other button removes
DispatchedAs(ray, hit) ==
    \A add \in {MouseDownWorld(2, ray)} : \A remove \in {MouseDownWorld(0, ray)} :
       /\ \A button \in AllButtons \ {0, 2} : MouseDownWorld(button, ray) = remove
       /\ IF hit[1] = 0
          THEN add = World /\ remove = World
          ELSE /\ IsAdd(objects[hit[1]].position, hit[2], add)
               /\ IsRemove(hit[1], remove)

\* C18: a mouse-down without the pointer lock leaves the registry, the scene
\* and the block count as they are, whatever the button and wherever the
\* player looks; with the lock held, button 2 performs an add and every other
\* button a remove.
C18_MouseDown ==
    listening =>
       \A ray \in Rays :
          IF pointerLock
          THEN DispatchedAs(ray, PickedHit(ray))
          ELSE \A button \in AllButtons : MouseDownWorld(button, ray) = World

\* the lock was released over an edited world: a placed voxel is in the scene,
\* a terrain voxel was removed, and a click now would only ask for the lock
C18_Witness ==
    /\ listening
    /\ ~pointerLock
    /\ UserMeshes # {}
    /\ \E id \in RemovedMeshes : id <= Len(MountObjects)

\* -------------------------------------------------------- the block count
\* C19: the block count shown in the overlay equals the size of the voxel
\* registry: before and after the effect, and after every add or remove,
\* whether it edited the world or not.
C19_BlockCountIsRegistrySize == blockCount = Cardinality(DOMAIN voxels)

\* adds and removes have moved the count away from the terrain's: a placed
\* voxel is in the scene and two or more terrain voxels are gone
C19_Witness ==
    /\ listening
    /\ UserMeshes # {}
    /\ blockCount < TerrainSize
    /\ blockCount > 0

=============================================================================
